---- MODULE Spec2Model ----
(***************************************************************************)
(* A model of libshaiya's archive reader: the fixed-length text reader     *)
(* (utils.rs), the folder tree decoder and path resolver (archive/file.rs) *)
(* and the archive header decoder and payload accessor (archive/mod.rs).   *)
(*                                                                         *)
(* Bytes are the integers 0..255, a String is the sequence of its Unicode  *)
(* code points, Option<T> is a sequence of length 0 (None) or 1 (Some).    *)
(***************************************************************************)
EXTENDS Integers, Sequences, FiniteSets, TLC

\* F applied to the value of v.  The value is computed once and then named,
\* as a `let` of the code names it; the operators below use it for every
\* intermediate result that is read more than once.
Bind(v, F(_)) == CHOOSE r \in { F(x) : x \in {v} } : TRUE

(***************************************************************************)
(* Text: String::from_utf8_lossy and str::eq_ignore_ascii_case             *)
(***************************************************************************)

\* U+FFFD REPLACEMENT CHARACTER, what from_utf8_lossy puts for invalid bytes.
Replacement == 65533

\* The byte at 1-based index i of b, or 0 past the end (Utf8Chunks' safe_get).
SafeGet(b, i) == IF i <= Len(b) THEN b[i] ELSE 0

\* A UTF-8 continuation byte, 0x80..0xBF.
IsCont(x) == x >= 128 /\ x <= 191

\* The second byte allowed after the lead byte of a 3- or 4-byte sequence
\* (the ranges that exclude overlong forms, surrogates and > U+10FFFF).
SecondOk(lead, x) ==
    CASE lead = 224 -> x >= 160 /\ x <= 191
      [] lead = 237 -> x >= 128 /\ x <= 159
      [] lead = 240 -> x >= 144 /\ x <= 191
      [] lead = 244 -> x >= 128 /\ x <= 143
      [] OTHER      -> IsCont(x)

\* One step of the lossy decoder at index i: the code point produced and the
\* number of bytes consumed.  An invalid sequence yields one U+FFFD for its
\* maximal valid prefix (at least one byte).
Utf8Step(b, i) ==
    LET b0 == b[i]
        b1 == SafeGet(b, i + 1)
        b2 == SafeGet(b, i + 2)
        b3 == SafeGet(b, i + 3)
        Bad(n) == [cp |-> Replacement, n |-> n]
    IN  CASE b0 < 128 -> [cp |-> b0, n |-> 1]
          [] b0 >= 194 /\ b0 <= 223 ->
                IF IsCont(b1)
                THEN [cp |-> (b0 - 192) * 64 + (b1 - 128), n |-> 2]
                ELSE Bad(1)
          [] b0 >= 224 /\ b0 <= 239 ->
                IF ~SecondOk(b0, b1) THEN Bad(1)
                ELSE IF ~IsCont(b2) THEN Bad(2)
                ELSE [cp |-> (b0 - 224) * 4096 + (b1 - 128) * 64 + (b2 - 128),
                      n |-> 3]
          [] b0 >= 240 /\ b0 <= 244 ->
                IF ~SecondOk(b0, b1) THEN Bad(1)
                ELSE IF ~IsCont(b2) THEN Bad(2)
                ELSE IF ~IsCont(b3) THEN Bad(3)
                ELSE [cp |-> (b0 - 240) * 262144 + (b1 - 128) * 4096
                              + (b2 - 128) * 64 + (b3 - 128),
                      n |-> 4]
          [] OTHER -> Bad(1)

RECURSIVE Utf8LossyFrom(_, _)
Utf8LossyFrom(b, i) ==
    IF i > Len(b) THEN <<>>
    ELSE Bind(Utf8Step(b, i),
              LAMBDA s : <<s.cp>> \o Utf8LossyFrom(b, i + s.n))

\* String::from_utf8_lossy(&data).to_string()
FromUtf8Lossy(data) == Bind(data, LAMBDA b : Utf8LossyFrom(b, 1))

\* u8::to_ascii_lowercase on a code point: only 'A'..'Z' change.
AsciiLower(c) == IF c >= 65 /\ c <= 90 THEN c + 32 ELSE c

\* Comparison of the names as they are.
EqExact(s, t) == s = t

\* str::eq_ignore_ascii_case: same length and equal under ASCII lower-casing.
\* (On UTF-8 bytes in the code; code points agree with bytes on ASCII and
\* every byte of a multi-byte character is >= 0x80, which the folding keeps.)
EqIgnoreAsciiCase(s, t) ==
    /\ Len(s) = Len(t)
    /\ \A i \in 1..Len(s) : AsciiLower(s[i]) = AsciiLower(t[i])

(***************************************************************************)
(* Readers over a Cursor<Vec<u8>>: the buffer b and the 0-based position   *)
(* pos.  Each returns [ok, pos, v]; ok = FALSE is read_exact's             *)
(* UnexpectedEof, raised when fewer than the wanted bytes remain.          *)
(***************************************************************************)

\* The little-endian value of the n bytes after pos (Horner, high byte first).
RECURSIVE LeValue(_, _, _)
LeValue(b, pos, n) ==
    IF n = 0 THEN 0 ELSE LeValue(b, pos + 1, n - 1) * 256 + b[pos + 1]

\* Whether n more bytes can be read at pos.
CanRead(b, pos, n) == pos + n <= Len(b)

\* ReadBytesExt::read_u32::<LittleEndian>
ReadU32(b, pos) ==
    IF CanRead(b, pos, 4)
    THEN [ok |-> TRUE, pos |-> pos + 4, v |-> LeValue(b, pos, 4)]
    ELSE [ok |-> FALSE, pos |-> pos, v |-> 0]

\* ReadBytesExt::read_u64::<LittleEndian>
ReadU64(b, pos) ==
    IF CanRead(b, pos, 8)
    THEN [ok |-> TRUE, pos |-> pos + 8, v |-> LeValue(b, pos, 8)]
    ELSE [ok |-> FALSE, pos |-> pos, v |-> 0]

\* ReadBytesExt::read_i32::<LittleEndian>: two's complement, the top byte
\* carries the sign.
ReadI32(b, pos) ==
    IF CanRead(b, pos, 4)
    THEN [ok |-> TRUE, pos |-> pos + 4,
          v |-> LET top == b[pos + 4]
                    hi  == IF top >= 128 THEN top - 256 ELSE top
                IN  hi * 16777216 + LeValue(b, pos, 3)]
    ELSE [ok |-> FALSE, pos |-> pos, v |-> 0]

\* Every byte kept, a trailing zero byte included.
StripNever(data) == data

\* The bytes kept by read_fixed_length_string: one trailing zero byte is
\* dropped when the last byte read is zero.
StripTerminator(data) ==
    IF Len(data) > 0 /\ data[Len(data)] = 0
    THEN SubSeq(data, 1, Len(data) - 1)
    ELSE data

\* ShaiyaIo::read_fixed_length_string(length)
ReadFixedLengthString(b, pos, length) ==
    IF CanRead(b, pos, length)
    THEN [ok |-> TRUE, pos |-> pos + length,
          v |-> FromUtf8Lossy(StripTerminator(SubSeq(b, pos + 1, pos + length)))]
    ELSE [ok |-> FALSE, pos |-> pos, v |-> <<>>]

(***************************************************************************)
(* The tree: SFolder and SFile, and SFolder::parse                         *)
(***************************************************************************)

\* SFolder::new(name): an empty folder.
SFolderNew(name) == [name |-> name, files |-> <<>>, folders |-> <<>>]

\* An SFile value (length is the u32 read from the header, widened to u64).
SFile(name, offset, length, checksum) ==
    [name |-> name, offset |-> offset, length |-> length, checksum |-> checksum]

RECURSIVE ParseFiles(_, _, _, _)
RECURSIVE ParseFolders(_, _, _, _)
RECURSIVE SFolderParse(_, _, _)

\* The file loop of SFolder::parse: n entries still to read into folder self.
\* Returns [ok, pos, self]; on a short read, self as populated so far.
ParseFiles(self, b, pos, n) ==
    LET Fail == [ok |-> FALSE, pos |-> pos, self |-> self]
    IN
    IF n = 0 THEN [ok |-> TRUE, pos |-> pos, self |-> self]
    ELSE
      Bind(ReadU32(b, pos), LAMBDA nameLen :
      IF ~nameLen.ok THEN Fail ELSE
      Bind(ReadFixedLengthString(b, nameLen.pos, nameLen.v), LAMBDA name :
      IF ~name.ok THEN Fail ELSE
      Bind(ReadU64(b, name.pos), LAMBDA offset :
      IF ~offset.ok THEN Fail ELSE
      Bind(ReadU32(b, offset.pos), LAMBDA length :
      IF ~length.ok THEN Fail ELSE
      Bind(ReadI32(b, length.pos), LAMBDA checksum :
      IF ~checksum.ok THEN Fail ELSE
      Bind([self EXCEPT !.files =
               Append(@, SFile(name.v, offset.v, length.v, checksum.v))],
           LAMBDA pushed : ParseFiles(pushed, b, checksum.pos, n - 1)))))))

\* The sub-directory loop of SFolder::parse.  A sub-directory whose own parse
\* fails is not pushed: the `?` returns first.
ParseFolders(self, b, pos, n) ==
    LET Fail == [ok |-> FALSE, pos |-> pos, self |-> self]
    IN
    IF n = 0 THEN [ok |-> TRUE, pos |-> pos, self |-> self]
    ELSE
      Bind(ReadU32(b, pos), LAMBDA nameLen :
      IF ~nameLen.ok THEN Fail ELSE
      Bind(ReadFixedLengthString(b, nameLen.pos, nameLen.v), LAMBDA name :
      IF ~name.ok THEN Fail ELSE
      Bind(SFolderParse(SFolderNew(name.v), b, name.pos), LAMBDA sub :
      IF ~sub.ok THEN Fail ELSE
      Bind([self EXCEPT !.folders = Append(@, sub.self)],
           LAMBDA pushed : ParseFolders(pushed, b, sub.pos, n - 1)))))

\* SFolder::parse(&mut self, buf): returns [ok, pos, self] where self is the
\* folder after the call, partially populated when ok = FALSE.
SFolderParse(self, b, pos) ==
    Bind(ReadU32(b, pos), LAMBDA fileQty :
    IF ~fileQty.ok THEN [ok |-> FALSE, pos |-> pos, self |-> self] ELSE
    Bind(ParseFiles(self, b, fileQty.pos, fileQty.v), LAMBDA files :
    IF ~files.ok THEN files ELSE
    Bind(ReadU32(b, files.pos), LAMBDA folderQty :
    IF ~folderQty.ok THEN [ok |-> FALSE, pos |-> files.pos, self |-> files.self]
    ELSE ParseFolders(files.self, b, folderQty.pos, folderQty.v))))

(***************************************************************************)
(* The path resolver: SFolder::get and Archive::get                        *)
(***************************************************************************)

None == <<>>
Some(x) == <<x>>

\* '/', the separator Archive::get splits the path on.
Slash == 47

\* str::split("/"): the segments between separators, at least one, possibly
\* empty ones.
RECURSIVE SplitFrom(_, _, _)
SplitFrom(path, i, cur) ==
    IF i > Len(path) THEN <<cur>>
    ELSE IF path[i] = Slash THEN <<cur>> \o SplitFrom(path, i + 1, <<>>)
    ELSE SplitFrom(path, i + 1, Append(cur, path[i]))

SplitPath(path) == SplitFrom(path, 1, <<>>)

\* The index of the first entry of seq whose name equals part ignoring ASCII
\* case, 0 when there is none (the two inner `for` loops of SFolder::get).
FirstMatch(seq, part) ==
    IF \E i \in 1..Len(seq) : EqIgnoreAsciiCase(seq[i].name, part)
    THEN CHOOSE i \in 1..Len(seq) :
            /\ EqIgnoreAsciiCase(seq[i].name, part)
            /\ \A j \in 1..(i - 1) : ~EqIgnoreAsciiCase(seq[j].name, part)
    ELSE 0

RECURSIVE SFolderGet(_, _)
RECURSIVE ScanParts(_, _, _)

\* ScanParts, descending without parts.pop_front().
ScanPartsNoPop(self, parts, i) ==
    IF i > Len(parts) THEN None
    ELSE
      Bind(FirstMatch(self.files, parts[i]), LAMBDA f :
      IF f > 0 THEN Some(self.files[f]) ELSE
      Bind(FirstMatch(self.folders, parts[i]), LAMBDA d :
      IF d > 0 THEN SFolderGet(self.folders[d], parts)
      ELSE ScanParts(self, parts, i + 1)))

\* ScanParts, removing the segment that matched instead of the front one.
ScanPartsPopMatched(self, parts, i) ==
    IF i > Len(parts) THEN None
    ELSE
      Bind(FirstMatch(self.files, parts[i]), LAMBDA f :
      IF f > 0 THEN Some(self.files[f]) ELSE
      Bind(FirstMatch(self.folders, parts[i]), LAMBDA d :
      IF d > 0
      THEN SFolderGet(self.folders[d],
                      SubSeq(parts, 1, i - 1) \o SubSeq(parts, i + 1, Len(parts)))
      ELSE ScanParts(self, parts, i + 1)))

\* The outer loop of SFolder::get at the i-th element of parts.
ScanParts(self, parts, i) ==
    IF i > Len(parts) THEN None
    ELSE
      Bind(FirstMatch(self.files, parts[i]), LAMBDA f :
      IF f > 0 THEN Some(self.files[f]) ELSE
      Bind(FirstMatch(self.folders, parts[i]), LAMBDA d :
      IF d > 0 THEN SFolderGet(self.folders[d], Tail(parts))
      ELSE ScanParts(self, parts, i + 1)))

\* SFolder::get that, finding nothing in a folder, looks into its
\* sub-folders in order.
RECURSIVE FirstFound(_, _, _)
FirstFound(folders, parts, j) ==
    IF j > Len(folders) THEN None
    ELSE Bind(SFolderGet(folders[j], parts), LAMBDA found :
         IF found # None THEN found ELSE FirstFound(folders, parts, j + 1))

SFolderGetFlattening(self, parts) ==
    Bind(self, LAMBDA s : Bind(parts, LAMBDA p :
    Bind(ScanParts(s, p, 1), LAMBDA found :
    IF found # None THEN found ELSE FirstFound(s.folders, p, 1))))

\* SFolder::get(&self, parts)
SFolderGet(self, parts) ==
    Bind(self, LAMBDA s : Bind(parts, LAMBDA p : ScanParts(s, p, 1)))

\* Archive::get(path)
ArchiveGet(root, path) == SFolderGet(root, SplitPath(path))

(***************************************************************************)
(* Archive::parse and Archive::file_data                                   *)
(***************************************************************************)

\* SAH_MAGIC_VALUE = "SAH"
SAH_MAGIC_VALUE == <<83, 65, 72>>

\* DEFAULT_ROOT_NAME = "data"
DEFAULT_ROOT_NAME == <<100, 97, 116, 97>>

\* The three regions Archive::parse seeks over after the magic value.
SkipUnknown == 4
SkipFileCount == 4
SkipReserved == 40

\* The magic check of Archive::parse: `name != SAH_MAGIC_VALUE` on Strings.
\* MagicMatchesAnyCase is the check done ignoring ASCII case.
MagicMatchesAnyCase(name) == EqIgnoreAsciiCase(name, SAH_MAGIC_VALUE)
MagicMatches(name) == name = SAH_MAGIC_VALUE

\* Archive::parse on the bytes read_to_end delivered, with root the tree held
\* before the call.  Returns [res, root]: res is "Ok", "Eof" (a read_exact
\* failed) or "Magic" (the magic value differs); root is self.root after the
\* call.  Seeking a Cursor past its end succeeds; the next read fails.
ArchiveParse(root, header_data) ==
    Bind(header_data, LAMBDA b :
    Bind(ReadFixedLengthString(b, 0, Len(SAH_MAGIC_VALUE)), LAMBDA magic :
    IF ~magic.ok THEN [res |-> "Eof", root |-> root] ELSE
    IF ~MagicMatches(magic.v) THEN [res |-> "Magic", root |-> root] ELSE
    Bind(ReadU32(b, magic.pos + SkipUnknown + SkipFileCount + SkipReserved),
         LAMBDA nameLen :
    IF ~nameLen.ok THEN [res |-> "Eof", root |-> root] ELSE
    Bind(ReadFixedLengthString(b, nameLen.pos, nameLen.v), LAMBDA name :
    IF ~name.ok THEN [res |-> "Eof", root |-> root] ELSE
    Bind(SFolderParse(SFolderNew(name.v), b, name.pos), LAMBDA tree :
    [res |-> IF tree.ok THEN "Ok" ELSE "Eof", root |-> tree.self])))))

\* File::read_to_end: the bytes of the file from the handle's position on.
ReadToEnd(bytes, pos) == SubSeq(bytes, pos + 1, Len(bytes))

\* The contents of files of at most MaxBuffer bytes are asked for.
MaxBuffer == 4

\* The numbers of bytes one File::read call may deliver into a buffer of
\* length bytes at position offset: none at or past the end of the file (or
\* into an empty buffer), otherwise at least one and at most what is there.
ReadCounts(data, offset, length) ==
    LET avail == IF offset >= Len(data) THEN 0 ELSE Len(data) - offset
        most  == IF length < avail THEN length ELSE avail
    IN  IF most = 0 THEN {0} ELSE 1..most

\* The buffer Archive::file_data returns when its read call delivers n bytes:
\* the zero-filled vector with its first n bytes overwritten.
FileDataBuffer(data, file, n) ==
    [i \in 1..file.length |->
        IF i <= n THEN data[file.offset + i] ELSE 0]

(***************************************************************************)
(* A writer of the header layout, used to build header files.  The         *)
(* repository has no writer; this follows the layout tables of the format: *)
(* magic, 48 skipped bytes, length-prefixed root name, then per folder the *)
(* file count, the file entries, the sub-folder count and the nested       *)
(* sub-folder blocks.  Names are given as bytes and written as they are.   *)
(***************************************************************************)

\* The n little-endian bytes of v (two's complement for a negative v).
RECURSIVE LeBytes(_, _)
LeBytes(v, n) ==
    IF n = 0 THEN <<>> ELSE <<v % 256>> \o LeBytes(v \div 256, n - 1)

WriteName(bytes) == LeBytes(Len(bytes), 4) \o bytes

WriteFile(f) ==
    WriteName(f.name) \o LeBytes(f.offset, 8) \o LeBytes(f.length, 4)
        \o LeBytes(f.checksum, 4)

RECURSIVE WriteFiles(_, _)
RECURSIVE WriteFolders(_, _)
RECURSIVE WriteFolderBlock(_)

WriteFiles(files, i) ==
    IF i > Len(files) THEN <<>>
    ELSE WriteFile(files[i]) \o WriteFiles(files, i + 1)

WriteFolders(folders, i) ==
    IF i > Len(folders) THEN <<>>
    ELSE WriteName(folders[i].name) \o WriteFolderBlock(folders[i])
            \o WriteFolders(folders, i + 1)

WriteFolderBlock(folder) ==
    LeBytes(Len(folder.files), 4) \o WriteFiles(folder.files, 1)
        \o LeBytes(Len(folder.folders), 4) \o WriteFolders(folder.folders, 1)

\* A whole header for the folder tree `folder` (names as bytes), the skipped
\* regions filled with the byte `fill`.
WriteHeader(folder, fill) ==
    SAH_MAGIC_VALUE
        \o [i \in 1..(SkipUnknown + SkipFileCount + SkipReserved) |-> fill]
        \o WriteName(folder.name) \o WriteFolderBlock(folder)

(***************************************************************************)
(* The header and data files the archive is opened on                      *)
(***************************************************************************)

\* root "data\0": files "a" (1,3), "B" (4,2); folder "d\0" with file "c" (5,4).
HeaderTreeA ==
    [name |-> <<100, 97, 116, 97, 0>>,
     files |-> << SFile(<<97>>, 1, 3, -1), SFile(<<66>>, 4, 2, 7) >>,
     folders |-> << [name |-> <<100, 0>>,
                     files |-> << SFile(<<99>>, 5, 4, 0) >>,
                     folders |-> <<>>] >>]

\* root "r": files "x" (9,2) and the empty "y" (0,0).
HeaderTreeB ==
    [name |-> <<114>>,
     files |-> << SFile(<<120>>, 9, 2, 5), SFile(<<121>>, 0, 0, 0) >>,
     folders |-> <<>>]

HeaderA == WriteHeader(HeaderTreeA, 0)
HeaderB == WriteHeader(HeaderTreeB, 1)

\* h with its first three bytes replaced by m.
WithMagic(h, m) == m \o SubSeq(h, 4, Len(h))

\* Three-byte values that are not "SAH": "SA\0", "sah", "SAh", "\0AH", "HAS".
BadMagics ==
    { <<83, 65, 0>>, <<115, 97, 104>>, <<83, 65, 104>>, <<0, 65, 72>>,
      <<72, 65, 83>> }

Prefixes(h) == { SubSeq(h, 1, n) : n \in 0..Len(h) }

\* The header files: the two headers, each cut short at every length, with
\* trailing bytes, and with a wrong magic value.
HeaderSet ==
    Prefixes(HeaderA) \cup Prefixes(HeaderB)
        \cup { HeaderA \o <<1, 2, 3>> }
        \cup { WithMagic(HeaderA, m) : m \in BadMagics }

\* The data files: one that holds some of the ranges the headers name and
\* not others, one that holds them all.
DataSet ==
    { <<11, 12, 13, 14, 15, 16>>,
      <<21, 22, 23, 24, 25, 26, 27, 28, 29, 30, 31>> }

\* What another writer appends to the header file while the archive is open:
\* a whole header, a wrong magic, and the header cut short inside the magic,
\* the root name length, the file count, after the first file and inside the
\* sub-folder count.
GrowSet ==
    { HeaderB, WithMagic(HeaderB, <<83, 65, 104>>) }
        \cup { SubSeq(HeaderB, 1, n) : n \in {2, 53, 58, 81, 104} }

\* The paths Archive::get is called with: "a", "A", "d/c", "D/C", "c", "x",
\* "d", "q/d/c".
PathSet ==
    { <<97>>, <<65>>, <<100, 47, 99>>, <<68, 47, 67>>, <<99>>, <<120>>,
      <<100>>, <<113, 47, 100, 47, 99>> }

\* How many times the header file grows while the archive is open.
MaxGrows == 1

(***************************************************************************)
(* The archive                                                             *)
(***************************************************************************)

VARIABLES
    header_bytes,   \* the header file's content
    header_pos,     \* the position of Archive.header_file
    data_bytes,     \* the data file's content
    data_pos,       \* the position of Archive.data_file
    root,           \* Archive.root
    state,          \* "closed": no Archive yet; "open": open returned Ok;
                    \* "dropped": open returned Err and dropped the Archive
    op,             \* the last call: "none", "open", "parse", "get", "file_data"
    arg,            \* its argument: the path of get, Some(file) of file_data
    res,            \* its result: "Ok", "Eof", "Magic" ("-" when none)
    out,            \* the value returned: get's Option, file_data's buffer
    header_data,    \* the bytes the last parse read from the header file
    entry_root,     \* Archive.root when the last call was entered
    grows,          \* how many times the header file grew
    reserialised    \* <<>>, or <<T, z>> once the decoded tree T was written
                    \* back as a header file, its names zero-terminated iff z

vars ==
    << header_bytes, header_pos, data_bytes, data_pos, root, state, op, arg,
       res, out, header_data, entry_root, grows, reserialised >>

\* Every SFile of the tree under folder.
RECURSIVE AllFiles(_)
AllFiles(folder) ==
    { folder.files[i] : i \in 1..Len(folder.files) }
        \cup UNION { AllFiles(folder.folders[j]) : j \in 1..Len(folder.folders) }

Init ==
    /\ header_bytes \in HeaderSet
    /\ header_pos = 0
    /\ data_bytes \in DataSet
    /\ data_pos = 0
    /\ root = SFolderNew(DEFAULT_ROOT_NAME)
    /\ state = "closed"
    /\ op = "none"
    /\ arg = <<>>
    /\ res = "-"
    /\ out = <<>>
    /\ header_data = <<>>
    /\ entry_root = SFolderNew(DEFAULT_ROOT_NAME)
    /\ grows = 0
    /\ reserialised = <<>>

\* Archive::parse(&mut self) on the archive whose root is r: read the header
\* file from the handle's position to its end, decode, store the tree.
ParseCall(r) ==
    /\ header_data' = ReadToEnd(header_bytes, header_pos)
    /\ header_pos' = Len(header_bytes)
    /\ entry_root' = r
    /\ \E parsed \in { ArchiveParse(r, header_data') } :
          /\ root' = parsed.root
          /\ res' = parsed.res

\* Archive::open: both files are opened (positions 0), root is the empty
\* folder "data", parse runs; on Err the Archive is dropped.
Open ==
    /\ state = "closed"
    /\ ParseCall(SFolderNew(DEFAULT_ROOT_NAME))
    /\ state' = IF res' = "Ok" THEN "open" ELSE "dropped"
    /\ op' = "open"
    /\ arg' = <<>>
    /\ out' = <<>>
    /\ UNCHANGED << header_bytes, data_bytes, data_pos, grows, reserialised >>

\* Archive::parse called on the open archive.
Parse ==
    /\ state = "open"
    /\ ParseCall(root)
    /\ op' = "parse"
    /\ arg' = <<>>
    /\ out' = <<>>
    /\ UNCHANGED << header_bytes, data_bytes, data_pos, state, grows, reserialised >>

\* Archive::get(path)
Get(path) ==
    /\ state = "open"
    /\ op' = "get"
    /\ arg' = path
    /\ res' = "Ok"
    /\ out' = ArchiveGet(root, path)
    /\ entry_root' = root
    /\ UNCHANGED << header_bytes, header_pos, data_bytes, data_pos, root, state,
                    header_data, grows, reserialised >>

\* Archive::file_data(file) whose read call delivers n bytes: seek to
\* file.offset, one read into the zeroed buffer, Ok(buffer).
FileData(file, n) ==
    /\ state = "open"
    /\ n \in ReadCounts(data_bytes, file.offset, file.length)
    /\ op' = "file_data"
    /\ arg' = Some(file)
    /\ res' = "Ok"
    /\ out' = FileDataBuffer(data_bytes, file, n)
    /\ data_pos' = file.offset + n
    /\ entry_root' = root
    /\ UNCHANGED << header_bytes, header_pos, data_bytes, root, state,
                    header_data, grows, reserialised >>

\* The header file, opened for reading and writing and shared by path, grows
\* under another writer; the handle's position stays.
HeaderFileGrows(more) ==
    /\ state = "open"
    /\ grows < MaxGrows
    /\ header_bytes' = header_bytes \o more
    /\ grows' = grows + 1
    /\ UNCHANGED << header_pos, data_bytes, data_pos, root, state, op, arg, res,
                    out, header_data, entry_root, reserialised >>

Next ==
    \/ Open
    \/ Parse
    \/ \E path \in PathSet : Get(path)
    \/ \E file \in { f \in AllFiles(root) : f.length <= MaxBuffer } :
          \E n \in 0..file.length : FileData(file, n)
    \/ \E more \in GrowSet : HeaderFileGrows(more)

Spec == Init /\ [][Next]_vars

(***************************************************************************)
(* Properties of the archive                                               *)
(***************************************************************************)

\* The range [offset, offset + length) of the file last read.
ReadFile == arg[1]
InRange(file) == file.offset + file.length <= Len(data_bytes)
RangeBytes(file) == SubSeq(data_bytes, file.offset + 1, file.offset + file.length)
\* The number of bytes the last file_data's read call delivered.
Delivered == data_pos - ReadFile.offset

\* C2: file_data on a File whose range lies within the data file returns
\* exactly file.length bytes, equal to the data file's bytes at that range,
\* whatever calls came before.
C2_FileDataReturnsRange ==
    (op = "file_data" /\ InRange(ReadFile))
        => (res = "Ok" /\ out = RangeBytes(ReadFile))

\* C3: file_data returns an error, never a buffer with unfilled zero bytes,
\* when the range extends past the end of the data file or the read delivers
\* fewer than file.length bytes.
C3_FileDataErrorOnShortRead ==
    (op = "file_data" /\ (~InRange(ReadFile) \/ Delivered < ReadFile.length))
        => res # "Ok"

\* Whether the bytes start with exactly 'S', 'A', 'H'.
HasMagic(h) == Len(h) >= 3 /\ SubSeq(h, 1, 3) = <<83, 65, 72>>
IsEmptyTree(folder) == folder.files = <<>> /\ folder.folders = <<>>

\* C4: a decode that meets a short read returns an error and exposes no
\* partially populated tree: the root of an archive the caller holds has
\* none of the files or sub-folders the failed decode read (it is the tree
\* held before the call, or it is empty).
C4_NoPartialTree ==
    (op \in {"open", "parse"} /\ res = "Eof")
        => (state # "open" \/ root = entry_root \/ IsEmptyTree(root))

\* The tree the header file's bytes decode to.
DecodedTree == ArchiveParse(SFolderNew(DEFAULT_ROOT_NAME), header_bytes).root

\* C5: parse called again on an archive whose header was decoded, the
\* header file unchanged, succeeds and leaves root equal to the tree decoded
\* from the header file's bytes.
C5_ReparseReplacesTree ==
    (op = "parse" /\ grows = 0) => (res = "Ok" /\ root = DecodedTree)

\* C6 as stated: decoding a header of three bytes or more that does not
\* start with "SAH" fails and leaves the archive's tree empty.
C6_TreeEmptyOnBadMagic ==
    (op \in {"open", "parse"} /\ Len(header_data) >= 3 /\ ~HasMagic(header_data))
        => (res # "Ok" /\ IsEmptyTree(root))

\* C6 as amended: a decode fails the magic check exactly when three bytes
\* are there and are not "SAH" (one of them being zero included); a header
\* that does not start with "SAH" never decodes; and on that failure root is
\* what it was when the call was entered, which for the decode made by open
\* is the empty folder "data" of an archive that is then dropped.
C6_BadMagicLeavesRoot ==
    op \in {"open", "parse"} =>
        /\ res = "Magic" <=>
              (Len(header_data) >= 3 /\ ~HasMagic(header_data))
        /\ ~HasMagic(header_data) =>
              /\ res \in {"Magic", "Eof"}
              /\ root = entry_root
              /\ op = "open" =>
                    (root = SFolderNew(DEFAULT_ROOT_NAME) /\ state = "dropped")

\* A repeated parse failed the magic check and the earlier tree is still there.
C6_Witness ==
    /\ op = "parse" /\ res = "Magic"
    /\ root = entry_root /\ ~IsEmptyTree(root)

TypeOK == state \in {"closed", "open", "dropped"}

(***************************************************************************)
(* The path resolver on its own: Archive::get over every small tree        *)
(***************************************************************************)

\* The names of the trees' files and folders: "a", "\u00E9" (e acute) and
\* "a/\u00E9".
GetNames == { <<97>>, <<233>>, <<97, 47, 233>> }

\* The segments of the paths asked for: "a", "A" and e acute.
GetSegments == { <<97>>, <<65>>, <<233>> }

\* The trees have at most MaxNodes files and folders below the root.
MaxNodes == 3

\* The paths have at most MaxSegments segments.
MaxSegments == 2

RECURSIVE TreeBodies(_)
RECURSIVE FolderSeqs(_)

\* The contents (file names in order, sub-folders in order) of a folder with
\* exactly n files and folders below it.
TreeBodies(n) ==
    UNION { { [files |-> fs, folders |-> ds] :
                fs \in [1..k -> GetNames], ds \in FolderSeqs(n - k) } :
            k \in 0..n }

\* The sequences of named folders that hold m files and folders in all,
\* themselves included.
FolderSeqs(m) ==
    IF m = 0 THEN { <<>> }
    ELSE UNION { { <<[name |-> nm, files |-> bd.files, folders |-> bd.folders]>>
                       \o rest :
                     nm \in GetNames, bd \in TreeBodies(s - 1),
                     rest \in FolderSeqs(m - s) } :
                 s \in 1..m }

\* The folder with an SFile for each file name: every file of a tree gets an
\* offset of its own (from its place in the tree) and its index as length.
RECURSIVE WithFiles(_, _)
WithFiles(folder, code) ==
    [name    |-> folder.name,
     files   |-> [i \in 1..Len(folder.files) |->
                    SFile(folder.files[i], code * 16 + i, i, 0)],
     folders |-> [j \in 1..Len(folder.folders) |->
                    WithFiles(folder.folders[j], code * 16 + 8 + j)]]

GetTrees ==
    { WithFiles([name |-> DEFAULT_ROOT_NAME, files |-> bd.files,
                 folders |-> bd.folders], 0) :
        bd \in UNION { TreeBodies(n) : n \in 0..MaxNodes } }

RECURSIVE PathsOf(_)
PathsOf(n) ==
    IF n = 1 THEN GetSegments
    ELSE { p \o <<Slash>> \o seg : p \in PathsOf(n - 1), seg \in GetSegments }

GetPaths == UNION { PathsOf(n) : n \in 1..MaxSegments }

InitGet ==
    /\ root \in GetTrees
    /\ state = "open"
    /\ header_bytes = <<>>
    /\ header_pos = 0
    /\ data_bytes = <<>>
    /\ data_pos = 0
    /\ op = "none"
    /\ arg = <<>>
    /\ res = "-"
    /\ out = <<>>
    /\ header_data = <<>>
    /\ entry_root = root
    /\ grows = 0
    /\ reserialised = <<>>

\* One path is asked of each tree: get leaves the tree as it is, so a second
\* call starts where the first did.
NextGet == \E path \in GetPaths : op = "none" /\ Get(path)

SpecGet == InitGet /\ [][NextGet]_vars

\* Whether any file or sub-folder directly inside folder has a name equal to
\* part ignoring ASCII case.
MatchesIn(folder, part) ==
    FirstMatch(folder.files, part) > 0 \/ FirstMatch(folder.folders, part) > 0

\* The files of the tree under folder, each with the names of the folders
\* below `folder` that lead to it and the folders passed on the way.
RECURSIVE Located(_)
Located(folder) ==
    { [names |-> <<>>, way |-> <<folder>>, file |-> folder.files[i]] :
        i \in 1..Len(folder.files) }
    \cup UNION { { [names |-> <<folder.folders[j].name>> \o l.names,
                    way   |-> <<folder>> \o l.way,
                    file  |-> l.file] : l \in Located(folder.folders[j]) } :
                 j \in 1..Len(folder.folders) }

\* The names joined by '/'.
RECURSIVE Join(_)
Join(names) ==
    IF Len(names) = 1 THEN names[1]
    ELSE names[1] \o <<Slash>> \o Join(Tail(names))

\* The path of a located file: folder names, then the file's name.
PathTo(l) == Join(l.names \o <<l.file.name>>)

\* The names of the files and sub-folders of folder, files first.
EntryNames(folder) ==
    [i \in 1..Len(folder.files) |-> folder.files[i].name]
        \o [j \in 1..Len(folder.folders) |-> folder.folders[j].name]

\* The entries of folder have pairwise distinct names ignoring ASCII case.
DistinctNames(folder) ==
    \A i, j \in 1..Len(EntryNames(folder)) :
        i # j => ~EqIgnoreAsciiCase(EntryNames(folder)[i], EntryNames(folder)[j])

DistinctOnWay(l) == \A k \in 1..Len(l.way) : DistinctNames(l.way[k])

HasSlash(name) == \E i \in 1..Len(name) : name[i] = Slash

\* None of the names that make up the path of l contains '/'.
NoSlashOnPath(l) ==
    /\ ~HasSlash(l.file.name)
    /\ \A k \in 1..Len(l.names) : ~HasSlash(l.names[k])

\* C1 as stated: every file of the tree, the names in each folder on its way
\* being pairwise distinct ignoring ASCII case, is what get returns for its
\* path.
C1_GetFindsEveryFile ==
    \A l \in Located(root) :
        (op = "get" /\ arg = PathTo(l) /\ DistinctOnWay(l))
            => out = Some(l.file)

\* C1 as amended: the same, for the files none of whose path names (the
\* folders' and the file's own) contains '/'.
C1_GetFindsEveryFileNoSlash ==
    \A l \in Located(root) :
        (DistinctOnWay(l) /\ NoSlashOnPath(l)) =>
            /\ ArchiveGet(root, PathTo(l)) = Some(l.file)
            /\ (op = "get" /\ arg = PathTo(l)) => out = Some(l.file)

\* get was called with the path of a file inside a sub-folder and returned it.
C1_Witness ==
    /\ op = "get"
    /\ \E l \in Located(root) :
          /\ Len(l.names) >= 1
          /\ DistinctOnWay(l) /\ NoSlashOnPath(l)
          /\ arg = PathTo(l)
          /\ out = Some(l.file)

\* Letter case beyond ASCII, for the Latin-1 letters: U+00C0..U+00DE pair
\* with U+00E0..U+00FE, the signs U+00D7 and U+00F7 excepted.
ToLower(c) ==
    IF (c >= 65 /\ c <= 90) \/ (c >= 192 /\ c <= 222 /\ c # 215)
    THEN c + 32 ELSE c
ToUpper(c) ==
    IF (c >= 97 /\ c <= 122) \/ (c >= 224 /\ c <= 254 /\ c # 247)
    THEN c - 32 ELSE c
AsciiUpper(c) == IF c >= 97 /\ c <= 122 THEN c - 32 ELSE c

\* The strings got from p by changing the case of any of its letters.
RECURSIVE CaseVariants(_)
CaseVariants(p) ==
    IF p = <<>> THEN { <<>> }
    ELSE { <<c>> \o q : c \in {p[1], ToLower(p[1]), ToUpper(p[1])},
                        q \in CaseVariants(Tail(p)) }

\* The strings got from p by changing the case of any of its ASCII letters.
RECURSIVE AsciiCaseVariants(_)
AsciiCaseVariants(p) ==
    IF p = <<>> THEN { <<>> }
    ELSE { <<c>> \o q : c \in {p[1], AsciiLower(p[1]), AsciiUpper(p[1])},
                        q \in AsciiCaseVariants(Tail(p)) }

\* C8 as stated: get resolves a path and every path that differs from it
\* only in letter case identically.
C8_GetIgnoresCase ==
    op = "get" => \A q \in CaseVariants(arg) : ArchiveGet(root, q) = out

\* C8 as amended: the same for the paths that differ only in the case of
\* ASCII letters.
C8_GetIgnoresAsciiCase ==
    op = "get" => \A q \in AsciiCaseVariants(arg) : ArchiveGet(root, q) = out

\* get found a file through a segment whose case differs from the name's.
C8_Witness ==
    /\ op = "get" /\ out # None
    /\ SplitPath(arg)[Len(SplitPath(arg))] # out[1].name
    /\ \E q \in AsciiCaseVariants(arg) : q # arg

\* C9: get returns None when no segment of the path matches, ignoring case,
\* a file or sub-folder directly inside the root.
C9_NoneWithoutRootMatch ==
    (op = "get" /\ \A i \in 1..Len(SplitPath(arg)) :
                      ~MatchesIn(root, SplitPath(arg)[i]))
        => out = None

\* get was asked for the bare name of a file that is only inside a
\* sub-folder, and returned None.
C9_Witness ==
    /\ op = "get" /\ out = None
    /\ \E l \in Located(root) : Len(l.names) >= 1 /\ l.file.name = arg

\* The resolver as the specification words it: the first segment, in order,
\* that matches a file or a sub-folder of the folder decides; a matching
\* file (the first in order) is the result; otherwise the walk goes on in
\* the first matching sub-folder with the front segment removed.
RECURSIVE LiteralResolve(_, _)
LiteralResolve(folder, parts) ==
    LET hits == { i \in 1..Len(parts) : MatchesIn(folder, parts[i]) }
    IN  IF hits = {} THEN None
        ELSE LET i  == CHOOSE h \in hits : \A g \in hits : h <= g
                 fs == { k \in 1..Len(folder.files) :
                           EqIgnoreAsciiCase(folder.files[k].name, parts[i]) }
                 ds == { k \in 1..Len(folder.folders) :
                           EqIgnoreAsciiCase(folder.folders[k].name, parts[i]) }
             IN  IF fs # {}
                 THEN Some(folder.files[CHOOSE k \in fs : \A g \in fs : k <= g])
                 ELSE LiteralResolve(
                        folder.folders[CHOOSE k \in ds : \A g \in ds : k <= g],
                        SubSeq(parts, 2, Len(parts)))

\* C10: SFolder::get returns what the literal resolver returns.
C10_GetIsLiteralResolver ==
    op = "get" => out = LiteralResolve(root, SplitPath(arg))

\* get matched a sub-folder on its second segment, removed the first, went
\* on with the matched segment still in the list and found a file by it.
C10_Witness ==
    /\ op = "get" /\ out # None
    /\ Len(SplitPath(arg)) = 2
    /\ ~MatchesIn(root, SplitPath(arg)[1])
    /\ FirstMatch(root.files, SplitPath(arg)[2]) = 0
    /\ FirstMatch(root.folders, SplitPath(arg)[2]) > 0

(***************************************************************************)
(* The round trip: decode, write the tree back, decode again               *)
(***************************************************************************)

\* The UTF-8 bytes of a code point (how a String holds it).
Utf8Bytes(cp) ==
    IF cp < 128 THEN <<cp>>
    ELSE IF cp < 2048 THEN <<192 + (cp \div 64), 128 + (cp % 64)>>
    ELSE IF cp < 65536
    THEN <<224 + (cp \div 4096), 128 + ((cp \div 64) % 64), 128 + (cp % 64)>>
    ELSE <<240 + (cp \div 262144), 128 + ((cp \div 4096) % 64),
           128 + ((cp \div 64) % 64), 128 + (cp % 64)>>

RECURSIVE ToUtf8(_)
ToUtf8(str) == IF str = <<>> THEN <<>> ELSE Utf8Bytes(str[1]) \o ToUtf8(Tail(str))

\* The bytes an encoder writes for a name: its UTF-8 bytes, followed by a
\* zero byte when it writes names zero-terminated.
NameBytes(name, terminated) ==
    ToUtf8(name) \o (IF terminated THEN <<0>> ELSE <<>>)

\* The decoded tree with every name as the bytes to write.
RECURSIVE TreeToWrite(_, _)
TreeToWrite(folder, terminated) ==
    [name    |-> NameBytes(folder.name, terminated),
     files   |-> [i \in 1..Len(folder.files) |->
                    [folder.files[i] EXCEPT
                        !.name = NameBytes(@, terminated)]],
     folders |-> [j \in 1..Len(folder.folders) |->
                    TreeToWrite(folder.folders[j], terminated)]]

\* The header an encoder writes for the decoded tree.
Serialise(tree, terminated) == WriteHeader(TreeToWrite(tree, terminated), 0)

\* The name fields of the headers decoded: "a", "ab", "a\0", "a\0\0", "\0",
\* e acute, a bare 0xFF, a lead byte cut short, the euro sign (3 bytes), an
\* emoji (4 bytes).
RtNames ==
    { <<97>>, <<97, 98>>, <<97, 0>>, <<97, 0, 0>>, <<0>>, <<195, 169>>, <<255>>,
      <<195>>, <<226, 130, 172>>, <<240, 159, 152, 128>> }

\* The headers' trees have at most MaxRtNodes files and folders.
MaxRtNodes == 2

\* Offsets, lengths and checksums of the headers' files, by place.
RtOffsets == <<0, 2147483647, 256>>
RtLengths == <<65536, 0, 2147483647>>
RtChecksums == <<-1, 2147483647, -2147483647 - 1>>

RECURSIVE RtBodies(_)
RECURSIVE RtFolderSeqs(_)

RtBodies(n) ==
    UNION { { [files |-> fs, folders |-> ds] :
                fs \in [1..k -> RtNames], ds \in RtFolderSeqs(n - k) } :
            k \in 0..n }

RtFolderSeqs(m) ==
    IF m = 0 THEN { <<>> }
    ELSE UNION { { <<[name |-> nm, files |-> bd.files, folders |-> bd.folders]>>
                       \o rest :
                     nm \in RtNames, bd \in RtBodies(s - 1),
                     rest \in RtFolderSeqs(m - s) } :
                 s \in 1..m }

\* The folder with a file entry for each file name.
RECURSIVE RtWithFiles(_, _)
RtWithFiles(folder, code) ==
    [name    |-> folder.name,
     files   |-> [i \in 1..Len(folder.files) |->
                    SFile(folder.files[i],
                          RtOffsets[((code + i) % 3) + 1],
                          RtLengths[((code + i) % 3) + 1],
                          RtChecksums[((code + i) % 3) + 1])],
     folders |-> [j \in 1..Len(folder.folders) |->
                    RtWithFiles(folder.folders[j], code + j)]]

\* The well-formed headers decoded: every small tree under a root "data\0",
\* and an empty root under every name; reserved bytes 0 or 255; with and
\* without bytes after the root folder block.
RtHeaders ==
    LET trees ==
          { RtWithFiles([name |-> <<100, 97, 116, 97, 0>>, files |-> bd.files,
                         folders |-> bd.folders], 0) :
              bd \in UNION { RtBodies(n) : n \in 0..MaxRtNodes } }
          \cup { SFolderNew(nm) : nm \in RtNames }
    IN  { WriteHeader(t, 0) : t \in trees }
        \cup { WriteHeader(SFolderNew(nm), 255) \o <<7, 0>> : nm \in RtNames }

InitRT ==
    /\ header_bytes \in RtHeaders
    /\ header_pos = 0
    /\ data_bytes = <<>>
    /\ data_pos = 0
    /\ root = SFolderNew(DEFAULT_ROOT_NAME)
    /\ state = "closed"
    /\ op = "none"
    /\ arg = <<>>
    /\ res = "-"
    /\ out = <<>>
    /\ header_data = <<>>
    /\ entry_root = SFolderNew(DEFAULT_ROOT_NAME)
    /\ grows = 0
    /\ reserialised = <<>>

\* The decoded tree is written back as a new header file, to be opened.
Reserialise(terminated) ==
    /\ state = "open"
    /\ reserialised = <<>>
    /\ header_bytes' = Serialise(root, terminated)
    /\ header_pos' = 0
    /\ reserialised' = <<root, terminated>>
    /\ state' = "closed"
    /\ op' = "serialise"
    /\ UNCHANGED << data_bytes, data_pos, root, arg, res, out, header_data,
                    entry_root, grows >>

NextRT ==
    \/ Open
    \/ \E terminated \in BOOLEAN : Reserialise(terminated)

SpecRT == InitRT /\ [][NextRT]_vars

\* Whether some name of the tree ends in a zero character.
RECURSIVE SomeNameEndsInZero(_)
EndsInZero(name) == Len(name) > 0 /\ name[Len(name)] = 0
SomeNameEndsInZero(folder) ==
    \/ EndsInZero(folder.name)
    \/ \E i \in 1..Len(folder.files) : EndsInZero(folder.files[i].name)
    \/ \E j \in 1..Len(folder.folders) : SomeNameEndsInZero(folder.folders[j])

\* The second decode of a round trip is done.
RoundTripDone == reserialised # <<>> /\ op = "open"

====
